---- MODULE Spec2Model ----
(***************************************************************************)
(* Model of the KURO Brain cognition pipeline (kuro-assistant/brain):     *)
(* plan validator, decision arbiter, DAG executor, task planner, intent   *)
(* router, semantic analyst, memory admission, persona generator and the  *)
(* orchestrator's ChatStream.                                              *)
(*                                                                         *)
(* Python dicts are modelled as TLA+ functions with string domains, so a  *)
(* missing key is a missing key; the insertion-ordered dict               *)
(* completed_steps is a sequence of <<key, value>> pairs.  Strings whose  *)
(* characters the code inspects (upper(), lower(), `in`, startswith) are  *)
(* spelled out character by character in Chars.                           *)
(***************************************************************************)
EXTENDS Integers, Sequences, FiniteSets, TLC

VARIABLES
    dag,              \* the PlannerDAG under validation / arbitration / execution
    pc,               \* position of the control flow
    valid,            \* what DAGValidator.validate(dag) returned
    decisions,        \* what DecisionArbiter.evaluate_plan(dag) returned
    in_degree,        \* DAGExecutor.execute: in_degree dict
    queue,            \* DAGExecutor.execute: ready deque
    current_id,       \* DAGExecutor.execute: current_id
    attempts,         \* DAGExecutor.execute: attempts (failed attempts so far)
    success,          \* DAGExecutor.execute: success
    result,           \* DAGExecutor.execute: result of the last _dispatch_step
    completed_steps,  \* DAGExecutor.execute: completed_steps (ordered dict)
    results,          \* DAGExecutor.execute: results list
    owners,           \* history: owners[i] is the step on whose behalf results[i] was appended
    dispatched,       \* history: step ids handed to _dispatch_step so far
    stubbed,          \* history: step ids for which a downstream stub was called
    calls,            \* history: _dispatch_step calls made for current_id
    popped,           \* history: the step ids taken from the queue, in order
    total_calls,      \* history: _dispatch_step calls made since execute began
    planner,          \* TaskPlanner.execute_plan: its arguments, the LLM's behaviour, its outcome
    chat,             \* BrainOrchestrator.ChatStream: the request stream, the locals, the responses
    analyst,          \* SemanticAnalyst.synthesize: its argument and what it returned
    workers           \* concurrent DAGExecutor.execute calls: the locals of each call

vars == <<dag, pc, valid, decisions, in_degree, queue, current_id, attempts,
          success, result, completed_steps, results, owners, dispatched,
          stubbed, calls, popped, total_calls, planner, chat, analyst, workers>>

\* The variables of the orchestrator, the analyst and the concurrent calls.
otherVars == <<chat, analyst, workers>>

-----------------------------------------------------------------------------
(* Bounds of the model.                                                    *)

\* Longest DAG in the exhaustively enumerated family StructDags.
MaxSteps == 3

-----------------------------------------------------------------------------
(* Strings.                                                                *)

Chars ==
     "stock" :> <<"s","t","o","c","k">> @@
     "price" :> <<"p","r","i","c","e">> @@
     "market" :> <<"m","a","r","k","e","t">> @@
     "news" :> <<"n","e","w","s">> @@
     "weather" :> <<"w","e","a","t","h","e","r">> @@
     "move" :> <<"m","o","v","e">> @@
     "open" :> <<"o","p","e","n">> @@
     "restart" :> <<"r","e","s","t","a","r","t">> @@
     "run" :> <<"r","u","n">> @@
     "remember" :> <<"r","e","m","e","m","b","e","r">> @@
     "history" :> <<"h","i","s","t","o","r","y">> @@
     "like" :> <<"l","i","k","e">> @@
     "feel" :> <<"f","e","e","l">> @@
     "forgot" :> <<"f","o","r","g","o","t">> @@
     "What is the WEATHER" :> <<"W","h","a","t"," ","i","s"," ","t","h","e"," ","W","E","A","T","H","E","R">> @@
     "i like the news" :> <<"i"," ","l","i","k","e"," ","t","h","e"," ","n","e","w","s">> @@
     "stop, too much at night" :> <<"s","t","o","p",","," ","t","o","o"," ","m","u","c","h"," ","a","t"," ","n","i","g","h","t">> @@
     "I dislike reruns" :> <<"I"," ","d","i","s","l","i","k","e"," ","r","e","r","u","n","s">> @@
     "remember to restart" :> <<"r","e","m","e","m","b","e","r"," ","t","o"," ","r","e","s","t","a","r","t">> @@
     "i like" :> <<"i"," ","l","i","k","e">> @@
     "i prefer" :> <<"i"," ","p","r","e","f","e","r">> @@
     "stop" :> <<"s","t","o","p">> @@
     "too much" :> <<"t","o","o"," ","m","u","c","h">> @@
     "at night" :> <<"a","t"," ","n","i","g","h","t">> @@
     " tool_action " :> <<" ","t","o","o","l","_","a","c","t","i","o","n"," ">> @@
     "unsure" :> <<"u","n","s","u","r","e">> @@
     "TOOL_ACTION" :> <<"T","O","O","L","_","A","C","T","I","O","N">> @@
     "REALTIME_SEARCH" :> <<"R","E","A","L","T","I","M","E","_","S","E","A","R","C","H">> @@
     "MEMORY_QUERY" :> <<"M","E","M","O","R","Y","_","Q","U","E","R","Y">> @@
     "A" :> <<"A">> @@
     "B" :> <<"B">> @@
     "C" :> <<"C">> @@
     "D" :> <<"D">> @@
     "E" :> <<"E">> @@
     "F" :> <<"F">> @@
     "G" :> <<"G">> @@
     "FS_LIST" :> <<"F","S","_","L","I","S","T">> @@
     "RAG_SEARCH" :> <<"R","A","G","_","S","E","A","R","C","H">> @@
     "MEMORY_GET" :> <<"M","E","M","O","R","Y","_","G","E","T">> @@
     "FS_DELETE" :> <<"F","S","_","D","E","L","E","T","E">> @@
     "OPS_RESTART" :> <<"O","P","S","_","R","E","S","T","A","R","T">> @@
     "DELETE_ALL_DISKS" :> <<"D","E","L","E","T","E","_","A","L","L","_","D","I","S","K","S">> @@
     "FS_DELETE_ALL" :> <<"F","S","_","D","E","L","E","T","E","_","A","L","L">> @@
     "list" :> <<"l","i","s","t">> @@
     "files" :> <<"f","i","l","e","s">> @@
     "hello" :> <<"h","e","l","l","o">> @@
     "list my files" :> <<"l","i","s","t"," ","m","y"," ","f","i","l","e","s">> @@
     "Show FILES" :> <<"S","h","o","w"," ","F","I","L","E","S">> @@
     "delete foo" :> <<"d","e","l","e","t","e"," ","f","o","o">> @@
     "fs_remove" :> <<"f","s","_","r","e","m","o","v","e">> @@
     "Format_System" :> <<"F","o","r","m","a","t","_","S","y","s","t","e","m">> @@
     "CONVERSE" :> <<"C","O","N","V","E","R","S","E">> @@
     "DELETE_ALL" :> <<"D","E","L","E","T","E","_","A","L","L">> @@
     "FORMAT_SYSTEM" :> <<"F","O","R","M","A","T","_","S","Y","S","T","E","M">> @@
     "delete" :> <<"d","e","l","e","t","e">> @@
     "remove" :> <<"r","e","m","o","v","e">> @@
     "FS_" :> <<"F","S","_">> @@
     "A.success" :> <<"A",".","s","u","c","c","e","s","s">> @@
     "B.success" :> <<"B",".","s","u","c","c","e","s","s">> @@
     "X.success" :> <<"X",".","s","u","c","c","e","s","s">> @@
     "A.success and B.success" :> <<"A",".","s","u","c","c","e","s","s"," ","a","n","d"," ","B",".","s","u","c","c","e","s","s">>

LowerAlpha == <<"a","b","c","d","e","f","g","h","i","j","k","l","m",
                "n","o","p","q","r","s","t","u","v","w","x","y","z">>
UpperAlpha == <<"A","B","C","D","E","F","G","H","I","J","K","L","M",
                "N","O","P","Q","R","S","T","U","V","W","X","Y","Z">>

\* One character of str.upper(): a lower-case letter becomes its capital.
UpperChar(c) ==
    IF \E i \in DOMAIN LowerAlpha : LowerAlpha[i] = c
    THEN UpperAlpha[CHOOSE i \in DOMAIN LowerAlpha : LowerAlpha[i] = c]
    ELSE c

\* One character of str.lower().
LowerChar(c) ==
    IF \E i \in DOMAIN UpperAlpha : UpperAlpha[i] = c
    THEN LowerAlpha[CHOOSE i \in DOMAIN UpperAlpha : UpperAlpha[i] = c]
    ELSE c

\* str.upper() and str.lower() on character sequences.
Upper(s) == [i \in DOMAIN s |-> UpperChar(s[i])]
Lower(s) == [i \in DOMAIN s |-> LowerChar(s[i])]

\* Python's `needle in hay` on character sequences.
Contains(hay, needle) ==
    \E i \in 1..(Len(hay) - Len(needle) + 1) :
        SubSeq(hay, i, i + Len(needle) - 1) = needle

\* str.startswith.
StartsWith(s, prefix) ==
    /\ Len(s) >= Len(prefix)
    /\ SubSeq(s, 1, Len(prefix)) = prefix

\* dict.get(key, default).
Get(d, key, default) == IF key \in DOMAIN d THEN d[key] ELSE default

Max(S) == CHOOSE m \in S : \A n \in S : n <= m

SeqsUpTo(S, n) == UNION {[1..k -> S] : k \in 0..n}

-----------------------------------------------------------------------------
(* PlannerDAG values.                                                      *)

\* The value of `condition` for which HasField("condition") is false.
NoCondition == "<unset>"

Step(id, act, deps, cond) ==
    [step_id |-> id, action_id |-> act, depends_on |-> deps, condition |-> cond]

IdSeq == <<"A", "B", "C", "D", "E", "F", "G">>
Ids == {"A", "B", "C"}
DepSeqs == {<<>>} \cup {<<d>> : d \in Ids}

ActionIds == {"FS_LIST", "RAG_SEARCH", "MEMORY_GET", "FS_DELETE", "OPS_RESTART",
              "DELETE_ALL_DISKS", "FS_DELETE_ALL", "fs_remove", "Format_System",
              "CONVERSE"}

Conditions == {NoCondition, "A.success", "B.success", "X.success",
               "A.success and B.success"}

\* Every DAG of at most MaxSteps steps over Ids (step ids may repeat, a
\* dependency may name a step that is absent or the step itself).
StructDags ==
    SeqsUpTo({Step(i, "FS_LIST", d, NoCondition) : i \in Ids, d \in DepSeqs}, MaxSteps)

\* One- and two-step DAGs over every action id.
ActionDags ==
    {<<Step("A", a, <<>>, NoCondition)>> : a \in ActionIds}
    \cup {<<Step("A", a, <<>>, NoCondition), Step("B", b, d, NoCondition)>> :
            a \in ActionIds, b \in ActionIds, d \in {<<>>, <<"A">>}}

\* Three-step DAGs over every condition string.
CondDags ==
    {<<Step("A", "FS_LIST", <<>>, c[1]),
       Step("B", "FS_LIST", d[1], c[2]),
       Step("C", "FS_LIST", d[2], c[3])>> :
        c \in [1..3 -> Conditions],
        d \in {<< <<"A">>, <<"B">> >>, << <<"A">>, <<"A">> >>,
               << <<>>, <<>> >>, << <<>>, <<"A", "B">> >>}}

Chain(n) ==
    [i \in 1..n |-> Step(IdSeq[i], "FS_LIST",
                         IF i = 1 THEN <<>> ELSE <<IdSeq[i - 1]>>, NoCondition)]

Wide(n) == [i \in 1..n |-> Step(IdSeq[i], "FS_LIST", <<>>, NoCondition)]

Diamond ==
    <<Step("A", "FS_LIST", <<>>, NoCondition),
      Step("B", "FS_LIST", <<"A">>, NoCondition),
      Step("C", "FS_LIST", <<"A">>, NoCondition),
      Step("D", "FS_LIST", <<"B", "C">>, NoCondition)>>

\* D waits for A and for C, and C comes late: A -> B -> C -> D and A -> D.
LateJoin ==
    <<Step("A", "FS_LIST", <<>>, NoCondition),
      Step("B", "FS_LIST", <<"A">>, NoCondition),
      Step("C", "FS_LIST", <<"B">>, NoCondition),
      Step("D", "FS_LIST", <<"A", "C">>, NoCondition)>>

NamedDags ==
    {Chain(4), Chain(5), Wide(6), Wide(7), Diamond, LateJoin,
     Chain(4) \o <<Step("E", "RAG_SEARCH", <<"A">>, NoCondition),
                   Step("F", "MEMORY_GET", <<>>, NoCondition)>>,
     <<Step("A", "MEMORY_GET", <<>>, NoCondition),
       Step("B", "RAG_SEARCH", <<"A", "A">>, NoCondition)>>,
     <<Step("A", "FS_LIST", <<>>, NoCondition),
       Step("B", "DELETE_ALL_DISKS", <<"A">>, NoCondition),
       Step("C", "FS_LIST", <<"B">>, NoCondition)>>,
     <<Step("A", "FS_LIST", <<>>, NoCondition),
       Step("B", "FS_DELETE", <<>>, NoCondition),
       Step("C", "FS_LIST", <<>>, NoCondition)>>}

Dags == StructDags \cup ActionDags \cup CondDags \cup NamedDags

StepIds(d) == {d[i].step_id : i \in DOMAIN d}

\* The (dep, step_id) pairs in the order the two nested loops over dag.steps
\* and step.intent.depends_on visit them.
RECURSIVE EdgeSeq(_, _)
EdgeSeq(d, i) ==
    IF i > Len(d) THEN <<>>
    ELSE [j \in 1..Len(d[i].depends_on) |-> <<d[i].depends_on[j], d[i].step_id>>]
         \o EdgeSeq(d, i + 1)

\* adj as both files build it from a sequence of edges: adj[dep].append(step_id).
AdjFrom(d, edges) ==
    [k \in StepIds(d) |->
        LET es == SelectSeq(edges, LAMBDA e : e[1] = k)
        IN  [n \in 1..Len(es) |-> es[n][2]]]

-----------------------------------------------------------------------------
(* Tool Registry (common.utils.tool_registry): the whitelist of action    *)
(* ids, with one tool per destination the specification names (memory,   *)
(* rag, client, ops).                                                     *)

TOOL_REGISTRY == {"MEMORY_GET", "RAG_SEARCH", "FS_LIST", "FS_DELETE", "OPS_RESTART"}

-----------------------------------------------------------------------------
(* DAGValidator.                                                           *)

MAX_NODES == 6
MAX_DEPTH == 4

\* get_depth(node_id, visited): the longest path from node_id, or -1 for the
\* ValueError("Cycle detected in Planner DAG").  Every neighbour gets its own
\* copy of visited, so visited holds exactly the nodes on the current path.
RECURSIVE get_depth(_, _, _)
get_depth(adj, node_id, visited) ==
    IF node_id \in visited THEN -1
    ELSE IF adj[node_id] = <<>> THEN 1
    ELSE LET ds == {get_depth(adj, adj[node_id][n], visited \cup {node_id}) :
                        n \in DOMAIN adj[node_id]}
         IN  IF -1 \in ds THEN -1 ELSE 1 + Max(ds \cup {0})

\* _calculate_max_depth(dag): [err, depth]; err names the ValueError raised.
_calculate_max_depth(d) ==
    LET edges == EdgeSeq(d, 1)
        roots == {d[i].step_id : i \in {j \in DOMAIN d : d[j].depends_on = <<>>}}
    IN  IF \E n \in DOMAIN edges : edges[n][1] \notin StepIds(d)
        THEN [err |-> "non-existent step", depth |-> 0]
        ELSE IF roots = {}
        THEN [err |-> "No root nodes found", depth |-> 0]
        ELSE LET adj == AdjFrom(d, edges)
                 ds  == {get_depth(adj, r, {}) : r \in roots}
             IN  IF -1 \in ds
                 THEN [err |-> "Cycle detected", depth |-> 0]
                 ELSE [err |-> "none", depth |-> Max(ds \cup {0})]

\* DAGValidator.validate(dag): [ok, reason].
validate(d) ==
    IF Len(d) > MAX_NODES
    THEN [ok |-> FALSE, reason |-> "DAG complexity too high"]
    ELSE IF Len(d) = 0
    THEN [ok |-> FALSE, reason |-> "DAG is empty."]
    ELSE IF \E i \in DOMAIN d : d[i].action_id \notin TOOL_REGISTRY
    THEN [ok |-> FALSE, reason |-> "Illegal action"]
    ELSE LET r == _calculate_max_depth(d)
         IN  IF r.err # "none"
             THEN [ok |-> FALSE, reason |-> r.err]
             ELSE IF r.depth > MAX_DEPTH
             THEN [ok |-> FALSE, reason |-> "DAG too deep"]
             ELSE [ok |-> TRUE, reason |-> "Success"]

-----------------------------------------------------------------------------
(* DecisionArbiter.                                                        *)

ArbiterDecision(step_id, tool_id, verdict, confidence, reason) ==
    [step_id |-> step_id, tool_id |-> tool_id, verdict |-> verdict,
     confidence |-> confidence, reason |-> reason]

\* decide with the two safeguards in the wrong order: the heuristic one is
\* tried before the hardware one.
decide_heuristic_first(step) ==
    LET action_id == Chars[step.action_id]
    IN  IF \/ Contains(Lower(action_id), Chars["delete"])
           \/ Contains(Lower(action_id), Chars["remove"])
        THEN ArbiterDecision(step.step_id, step.action_id, "CONFIRM", "0.8",
                 "Potentially destructive action requires manual confirmation.")
        ELSE IF \E forbidden \in {"DELETE_ALL", "FORMAT_SYSTEM"} :
                   Contains(Upper(action_id), Chars[forbidden])
        THEN ArbiterDecision(step.step_id, step.action_id, "DENY", "1.0",
                 "Critical system safety violation.")
        ELSE ArbiterDecision(step.step_id, step.action_id, "ALLOW", "1.0", "")

\* The body of the loop of evaluate_plan: the decision appended for one step.
decide(step) ==
    LET action_id == Chars[step.action_id]
    IN  IF \E forbidden \in {"DELETE_ALL", "FORMAT_SYSTEM"} :
               Contains(Upper(action_id), Chars[forbidden])
        THEN ArbiterDecision(step.step_id, step.action_id, "DENY", "1.0",
                 "Critical system safety violation.")
        ELSE IF \/ Contains(Lower(action_id), Chars["delete"])
                \/ Contains(Lower(action_id), Chars["remove"])
        THEN ArbiterDecision(step.step_id, step.action_id, "CONFIRM", "0.8",
                 "Potentially destructive action requires manual confirmation.")
        ELSE ArbiterDecision(step.step_id, step.action_id, "ALLOW", "1.0", "")

\* DecisionArbiter.evaluate_plan(dag): one decision per step, in dag order.
evaluate_plan(d) == [i \in DOMAIN d |-> decide(d[i])]

-----------------------------------------------------------------------------
(* DAGExecutor.                                                            *)

retry_budget == 2

\* What a downstream stub can do when called: answer with success, answer
\* with success = false (ExecuteAction only), or raise (RPC error, deadline).
StubBehaviours == {"success", "failure", "raise"}

\* steps_map: a later step with the same step_id replaces an earlier one.
steps_map(d) ==
    [k \in StepIds(d) |-> d[Max({i \in DOMAIN d : d[i].step_id = k})]]

\* The edges the executor keeps: `if dep in steps_map`.
ExecEdges(d) == SelectSeq(EdgeSeq(d, 1), LAMBDA e : e[1] \in StepIds(d))

adj(d) == AdjFrom(d, ExecEdges(d))

\* in_degree after the graph is built.
InitialInDegree(d) ==
    [k \in StepIds(d) |-> Len(SelectSeq(ExecEdges(d), LAMBDA e : e[2] = k))]

\* The key order of the dicts built from dag.steps: first occurrences.
RECURSIVE KeyOrder(_, _, _)
KeyOrder(d, i, seen) ==
    IF i > Len(d) THEN <<>>
    ELSE IF d[i].step_id \in seen THEN KeyOrder(d, i + 1, seen)
    ELSE <<d[i].step_id>> \o KeyOrder(d, i + 1, seen \cup {d[i].step_id})

\* Ready without the test: a successor is queued at every decrement.
ReadyAlways(deg, neighbor) == TRUE

\* Ready with an off-by-one: a successor is queued one dependency too early.
ReadyOffByOne(deg, neighbor) == deg[neighbor] <= 1

\* `if in_degree[neighbor] == 0`.
Ready(deg, neighbor) == deg[neighbor] = 0

\* for neighbor in adj[current_id]: in_degree[neighbor] -= 1; queue it when ready.
RECURSIVE Release(_, _, _)
Release(ns, deg, q) ==
    IF ns = <<>> THEN [in_degree |-> deg, queue |-> q]
    ELSE LET n    == Head(ns)
             deg2 == [deg EXCEPT ![n] = @ - 1]
         IN  Release(Tail(ns), deg2, IF Ready(deg2, n) THEN Append(q, n) ELSE q)

\* Ordered dict: keys, membership, lookup, assignment.
DictKeys(c) == {c[i][1] : i \in DOMAIN c}
DictGet(c, k) == c[CHOOSE i \in DOMAIN c : c[i][1] = k][2]
DictSet(c, k, v) ==
    IF k \in DictKeys(c)
    THEN [i \in DOMAIN c |-> IF c[i][1] = k THEN <<k, v>> ELSE c[i]]
    ELSE Append(c, <<k, v>>)

\* _evaluate_condition(condition_str, context): the success flag of the first
\* completed step whose id occurs in the string; True when none occurs.
_evaluate_condition(condition_str, context) ==
    LET hits == SelectSeq(context,
                    LAMBDA kv : Contains(Chars[condition_str], Chars[kv[1]]))
    IN  IF hits # <<>> THEN Get(hits[1][2], "success", FALSE) ELSE TRUE

\* CallsStub by the registry: every registered action id has a destination
\* stub and is sent to it.
CallsStubRegistry(action_id) == action_id \in TOOL_REGISTRY

\* Whether _dispatch_step reaches a stub for this action id.
CallsStub(action_id) ==
    \/ action_id = "RAG_SEARCH"
    \/ action_id = "MEMORY_GET"
    \/ StartsWith(Chars[action_id], Chars["FS_"])

\* _dispatch_step(step, context_data), given what the stub does.
_dispatch_step(step, stub) ==
    LET action_id == step.action_id
    IN  IF CallsStub(action_id) /\ stub = "raise"
        THEN [type |-> "error", success |-> FALSE, data |-> "exception"]
        ELSE IF action_id = "RAG_SEARCH"
        THEN [type |-> "rag", success |-> TRUE, data |-> "res"]
        ELSE IF action_id = "MEMORY_GET"
        THEN [type |-> "memory", success |-> TRUE, data |-> "res"]
        ELSE IF StartsWith(Chars[action_id], Chars["FS_"])
        THEN [type |-> "tool", success |-> (stub = "success"), data |-> "res"]
        ELSE [type |-> "error", success |-> FALSE, data |-> "Unknown action"]

\* RetryLoop with an off-by-one: one attempt fewer.
RetryLoopShort(n, ok) == n < retry_budget /\ ~ok

\* `while attempts <= self.retry_budget and not success`.
RetryLoop(n, ok) == n <= retry_budget /\ ~ok

\* AfterFailure without the break: the loop goes on after a failed step.
AfterFailureContinue == "loop"

\* `break` after a step that exhausted its retries.
AfterFailure == "done"

NoResult == [type |-> "none"]
IdlePlanner == [state |-> "idle"]

\* The orchestrator, the analyst and the concurrent calls before any use.
OtherIdle ==
    /\ chat = [state |-> "idle"]
    /\ analyst = [state |-> "idle"]
    /\ workers = <<>>

ExecIdle ==
    /\ in_degree = <<>>
    /\ queue = <<>>
    /\ current_id = "none"
    /\ attempts = 0
    /\ success = FALSE
    /\ result = NoResult
    /\ completed_steps = <<>>
    /\ results = <<>>
    /\ owners = <<>>
    /\ dispatched = {}
    /\ stubbed = {}
    /\ calls = 0
    /\ popped = <<>>
    /\ total_calls = 0

execVars == <<in_degree, queue, current_id, attempts, success, result,
              completed_steps, results, owners, dispatched, stubbed, calls,
              popped, total_calls>>

Init ==
    /\ dag \in Dags
    /\ pc = "validate"
    /\ valid = [ok |-> FALSE, reason |-> "pending"]
    /\ decisions = <<>>
    /\ ExecIdle
    /\ planner = IdlePlanner
    /\ OtherIdle

\* The planner's step 5: self.validator.validate(dag).
Validate ==
    /\ pc = "validate"
    /\ valid' = validate(dag)
    /\ pc' = "arbitrate"
    /\ UNCHANGED <<dag, decisions, execVars, planner, otherVars>>

\* The orchestrator's step 4: self.arbiter.evaluate_plan(dag).
Arbitrate ==
    /\ pc = "arbitrate"
    /\ decisions' = evaluate_plan(dag)
    /\ pc' = "execute"
    /\ UNCHANGED <<dag, valid, execVars, planner, otherVars>>

\* execute, up to the loop: build the graph and seed the queue.
ExecuteStart ==
    /\ pc = "execute"
    /\ in_degree' = InitialInDegree(dag)
    /\ queue' = SelectSeq(KeyOrder(dag, 1, {}),
                          LAMBDA sid : InitialInDegree(dag)[sid] = 0)
    /\ completed_steps' = <<>>
    /\ results' = <<>>
    /\ pc' = "loop"
    /\ UNCHANGED <<dag, valid, decisions, current_id, attempts, success, result,
                   owners, dispatched, stubbed, calls, popped, total_calls,
                   planner, otherVars>>

\* One turn of `while queue` up to the retry loop: pop, then either skip the
\* step on a false condition (and go round again) or set up its attempts.
PopStep ==
    /\ pc = "loop"
    /\ queue # <<>>
    /\ LET cur  == Head(queue)
           step == steps_map(dag)[cur]
       IN  /\ current_id' = cur
           /\ calls' = 0
           /\ popped' = Append(popped, cur)
           /\ IF /\ step.condition # NoCondition
                 /\ ~_evaluate_condition(step.condition, completed_steps)
              THEN LET r == Release(adj(dag)[cur], in_degree, Tail(queue))
                   IN  /\ completed_steps' =
                              DictSet(completed_steps, cur,
                                      [success |-> TRUE, skipped |-> TRUE])
                       /\ in_degree' = r.in_degree
                       /\ queue' = r.queue
                       /\ pc' = "loop"
                       /\ UNCHANGED <<attempts, success>>
              ELSE /\ queue' = Tail(queue)
                   /\ attempts' = 0
                   /\ success' = FALSE
                   /\ pc' = "dispatch"
                   /\ UNCHANGED <<completed_steps, in_degree>>
    /\ UNCHANGED <<dag, valid, decisions, result, results, owners, dispatched,
                   stubbed, total_calls, planner, otherVars>>

\* One turn of the retry loop: one call of _dispatch_step.
DispatchAttempt ==
    /\ pc = "dispatch"
    /\ RetryLoop(attempts, success)
    /\ \E stub \in StubBehaviours :
         LET step == steps_map(dag)[current_id]
             res  == _dispatch_step(step, stub)
         IN  /\ result' = res
             /\ IF Get(res, "success", FALSE)
                THEN success' = TRUE /\ attempts' = attempts
                ELSE success' = success /\ attempts' = attempts + 1
             /\ stubbed' = IF CallsStub(step.action_id)
                           THEN stubbed \cup {current_id} ELSE stubbed
    /\ dispatched' = dispatched \cup {current_id}
    /\ calls' = calls + 1
    /\ total_calls' = total_calls + 1
    /\ UNCHANGED <<dag, pc, valid, decisions, in_degree, queue, current_id,
                   completed_steps, results, owners, popped, planner, otherVars>>

\* After the retry loop: record the result, then release the successors or,
\* when the step failed, append the repair entry and break.
CompleteStep ==
    /\ pc = "dispatch"
    /\ ~RetryLoop(attempts, success)
    /\ completed_steps' = DictSet(completed_steps, current_id, result)
    /\ IF success
       THEN LET r == Release(adj(dag)[current_id], in_degree, queue)
            IN  /\ results' = Append(results, result)
                /\ owners' = Append(owners, current_id)
                /\ in_degree' = r.in_degree
                /\ queue' = r.queue
                /\ pc' = "loop"
       ELSE /\ results' = results \o
                    <<result, [type |-> "error", id |-> current_id,
                               data |-> "Step failed after retries."]>>
            /\ owners' = owners \o <<current_id, current_id>>
            /\ pc' = AfterFailure
            /\ UNCHANGED <<in_degree, queue>>
    /\ UNCHANGED <<dag, valid, decisions, current_id, attempts, success, result,
                   dispatched, stubbed, calls, popped, total_calls, planner,
                   otherVars>>

\* `while queue` ends on an empty queue: return results.
Return ==
    /\ pc = "loop"
    /\ queue = <<>>
    /\ pc' = "done"
    /\ UNCHANGED <<dag, valid, decisions, execVars, planner, otherVars>>

Next ==
    \/ Validate
    \/ Arbitrate
    \/ ExecuteStart
    \/ PopStep
    \/ DispatchAttempt
    \/ CompleteStep
    \/ Return

Spec == Init /\ [][Next]_vars

-----------------------------------------------------------------------------
(* Vocabulary of the properties.                                           *)

ExecPcs == {"loop", "dispatch", "done"}

\* The dependency relation of a DAG: <<dep, step>> when step lists dep.
DependsOn(d) ==
    UNION {{<<d[i].depends_on[j], d[i].step_id>> : j \in DOMAIN d[i].depends_on} :
               i \in DOMAIN d}

\* A relation is acyclic iff its nodes can all be removed, sources first.
RECURSIVE Peels(_, _)
Peels(nodes, rel) ==
    LET sources == {n \in nodes : ~\E m \in nodes : <<m, n>> \in rel}
    IN  IF nodes = {} THEN TRUE
        ELSE IF sources = {} THEN FALSE
        ELSE Peels(nodes \ sources, rel)

Acyclic(d) == Peels(StepIds(d), DependsOn(d))

\* Some dependency path visits k steps.
HasPath(d, k) ==
    \E p \in [1..k -> StepIds(d)] :
        \A i \in 1..(k - 1) : <<p[i], p[i + 1]>> \in DependsOn(d)

WellFormed(d) ==
    /\ Len(d) > 0
    /\ Len(d) <= MAX_NODES
    /\ \A i \in DOMAIN d : d[i].action_id \in TOOL_REGISTRY
    /\ \A e \in DependsOn(d) : e[1] \in StepIds(d)
    /\ Acyclic(d)
    /\ \E i \in DOMAIN d : d[i].depends_on = <<>>
    /\ ~HasPath(d, MAX_DEPTH + 1)

\* The step completed with a truthy success flag (executed or skipped).
Succeeded(k) ==
    /\ k \in DictKeys(completed_steps)
    /\ Get(DictGet(completed_steps, k), "success", FALSE)

\* Some step has used up its retry budget.
Exhausted == pc \in ExecPcs /\ ~success /\ attempts > retry_budget

-----------------------------------------------------------------------------
(* Properties.                                                             *)

\* C1: validate(dag) returns ok = true if and only if the DAG is non-empty,
\* has at most 6 steps, uses only registered action ids, names only existing
\* steps in depends_on, is acyclic over all its steps, has a step without
\* dependencies, and has no dependency path of more than 4 steps.
C1_ValidatorAcceptsIffWellFormed ==
    pc = "arbitrate" => (valid.ok <=> WellFormed(dag))

\* C2: for a validator-accepted DAG the result list never has more entries
\* than the DAG has steps, and no step owns two entries.
C2_AtMostOneResultPerStep ==
    (valid.ok /\ pc \in ExecPcs) =>
        /\ Len(results) <= Len(dag)
        /\ \A m, n \in DOMAIN owners : owners[m] = owners[n] => m = n

\* C3: on a validator-accepted DAG a step is dispatched only after every step
\* in its depends_on has completed with success or been skipped, and the
\* results are in a topological order of the dependency relation.
C3_DependenciesFirst ==
    (valid.ok /\ pc \in ExecPcs) =>
        /\ pc = "dispatch" =>
              \A i \in DOMAIN dag : dag[i].step_id = current_id =>
                  \A j \in DOMAIN dag[i].depends_on : Succeeded(dag[i].depends_on[j])
        /\ \A n \in DOMAIN owners : \A i \in DOMAIN dag :
              dag[i].step_id = owners[n] =>
                  \A j \in DOMAIN dag[i].depends_on :
                      \/ \E m \in 1..(n - 1) : owners[m] = dag[i].depends_on[j]
                      \/ /\ Succeeded(dag[i].depends_on[j])
                         /\ "skipped" \in DOMAIN DictGet(completed_steps, dag[i].depends_on[j])

\* C3's case: the late join A -> B -> C -> D, A -> D ran to its end.
C3_Witness ==
    /\ dag = LateJoin
    /\ valid.ok
    /\ pc = "done"
    /\ owners = <<"A", "B", "C", "D">>

\* C4: once a step has exhausted its retries, no other step is dispatched
\* and no result of another step is appended.
C4_HaltAfterFailure ==
    [][Exhausted =>
          /\ current_id' = current_id
          /\ dispatched' = dispatched
          /\ calls' = calls
          /\ \A n \in DOMAIN owners' : n > Len(owners) => owners'[n] = current_id
          /\ \A n \in DOMAIN owners : owners'[n] = owners[n]]_vars

\* C4's case: the run ended on a failed step while other steps were ready.
C4_Witness ==
    /\ pc = "done"
    /\ Exhausted
    /\ queue # <<>>
    /\ current_id \in DictKeys(completed_steps)

\* C5: a step with verdict DENY never reaches a downstream stub, and every
\* result it owns is a DENIED result.
C5_DeniedStepNotDispatched ==
    pc \in ExecPcs =>
        \A i \in DOMAIN decisions : decisions[i].verdict = "DENY" =>
            /\ decisions[i].step_id \notin stubbed
            /\ \A n \in DOMAIN owners : owners[n] = decisions[i].step_id =>
                   Get(results[n], "status", "none") = "DENIED"

\* C6: a step with verdict CONFIRM is not dispatched, to a stub or at all.
C6_ConfirmStepNotDispatched ==
    pc \in ExecPcs =>
        \A i \in DOMAIN decisions : decisions[i].verdict = "CONFIRM" =>
            decisions[i].step_id \notin (dispatched \cup stubbed)

\* Two characters are the same letter, whatever their case.
SameLetter(a, b) ==
    \/ a = b
    \/ \E i \in DOMAIN LowerAlpha : {a, b} = {LowerAlpha[i], UpperAlpha[i]}

ContainsIgnoringCase(hay, needle) ==
    \E i \in 1..(Len(hay) - Len(needle) + 1) :
        \A j \in DOMAIN needle : SameLetter(hay[i + j - 1], needle[j])

ExpectedVerdict(action_id) ==
    IF \/ ContainsIgnoringCase(Chars[action_id], Chars["DELETE_ALL"])
       \/ ContainsIgnoringCase(Chars[action_id], Chars["FORMAT_SYSTEM"])
    THEN <<"DENY", "1.0">>
    ELSE IF \/ ContainsIgnoringCase(Chars[action_id], Chars["delete"])
            \/ ContainsIgnoringCase(Chars[action_id], Chars["remove"])
    THEN <<"CONFIRM", "0.8">>
    ELSE <<"ALLOW", "1.0">>

\* C7: evaluate_plan returns one decision per step in dag order, DENY (1.0)
\* for DELETE_ALL / FORMAT_SYSTEM, else CONFIRM (0.8) for delete / remove,
\* else ALLOW (1.0), all matched without regard to case; DELETE_ALL_DISKS is
\* DENY.
C7_ArbiterRuleOrder ==
    pc \in ExecPcs \cup {"execute"} =>
        /\ Len(decisions) = Len(dag)
        /\ \A i \in DOMAIN dag :
              /\ decisions[i].step_id = dag[i].step_id
              /\ decisions[i].tool_id = dag[i].action_id
              /\ <<decisions[i].verdict, decisions[i].confidence>>
                     = ExpectedVerdict(dag[i].action_id)
              /\ dag[i].action_id = "DELETE_ALL_DISKS" => decisions[i].verdict = "DENY"

\* C7's case: a plan with DELETE_ALL_DISKS after another step was evaluated.
C7_Witness ==
    /\ pc = "execute"
    /\ Len(dag) = 2
    /\ dag[2].action_id = "DELETE_ALL_DISKS"
    /\ decisions[2].verdict = "DENY"
    /\ decisions[1].verdict = "CONFIRM"

\* C8: a step gets at most 3 dispatch attempts, none after its first success,
\* and a failed result is recorded only after 3 failed attempts.
C8_RetryBudget ==
    pc \in ExecPcs =>
        /\ calls <= retry_budget + 1
        /\ pc = "dispatch" => calls = attempts + (IF success THEN 1 ELSE 0)
        /\ \A n \in DOMAIN results :
              ("success" \in DOMAIN results[n] /\ ~results[n].success) =>
                  /\ calls = retry_budget + 1
                  /\ attempts = retry_budget + 1
        /\ (pc = "loop" /\ success /\ results # <<>>) =>
              Get(results[Len(results)], "success", FALSE)

\* C8's case: a step failed twice, succeeded on its third attempt and was
\* recorded as a success.
C8_Witness ==
    /\ pc = "loop"
    /\ success
    /\ calls = retry_budget + 1
    /\ attempts = retry_budget
    /\ results # <<>>
    /\ owners[Len(owners)] = current_id
    /\ results[Len(results)].success

\* The completed steps whose id occurs in the condition string.
Referenced(condition_str, context) ==
    {k \in DictKeys(context) : Contains(Chars[condition_str], Chars[k])}

\* The condition as the fail-closed conjunction.
FailClosed(condition_str, context) ==
    /\ Referenced(condition_str, context) # {}
    /\ \A k \in Referenced(condition_str, context) :
           Get(DictGet(context, k), "success", FALSE)

\* C9: a step with a condition goes on to dispatch if and only if some step
\* named in the condition has completed and all those that have completed
\* succeeded; otherwise it is skipped.
C9_ConditionFailClosed ==
    [][(/\ pc = "loop"
        /\ queue # <<>>
        /\ steps_map(dag)[Head(queue)].condition # NoCondition)
       => ((pc' = "dispatch")
              <=> FailClosed(steps_map(dag)[Head(queue)].condition, completed_steps))]_vars

-----------------------------------------------------------------------------
(* TaskPlanner.                                                            *)

Intents == {"CONVERSE", "REALTIME_SEARCH", "TOOL_ACTION", "MEMORY_QUERY"}
UserTexts == {"hello", "list my files", "Show FILES", "delete foo"}
Feedbacks == {"", "Initial search returned no high-confidence results."}

\* The replacement fields of SYSTEM_PLANNER_PROMPT, in order.  The template
\* is an f-string, so by the time str.format sees it every doubled brace has
\* become a single one: {get_tool_prompt()}, the braces of the JSON schema,
\* and {user_text}.
SYSTEM_PLANNER_PROMPT == <<"get_tool_prompt()", "<schema>", "user_text">>

\* str.format(**kwargs): "ok", or the error of the first field it cannot fill.
format(template, kwargs) ==
    IF \A i \in DOMAIN template : template[i] \in kwargs THEN "ok"
    ELSE LET first == CHOOSE i \in DOMAIN template :
                          /\ template[i] \notin kwargs
                          /\ \A j \in 1..(i - 1) : template[j] \in kwargs
         IN  IF template[first] = "<schema>" THEN "ValueError" ELSE "KeyError"

\* The JSON plans the LLM may answer with: lists of step objects, some
\* without a step_id or an action_id.
JsonStep(st) ==
    [step_id |-> st.step_id, action_id |-> st.action_id, depends_on |-> st.depends_on]

JsonPlans ==
    {[i \in DOMAIN d |-> JsonStep(d[i])] : d \in ActionDags \cup NamedDags}
    \cup {<<>>,
          <<[action_id |-> "FS_LIST"]>>,
          <<[step_id |-> "A"]>>,
          <<[step_id |-> "A", action_id |-> "MEMORY_GET"],
            [action_id |-> "RAG_SEARCH", depends_on |-> <<"A">>]>>}

\* What the LLM endpoint does with one request.
LlmBehaviours ==
    {[kind |-> k, steps |-> <<>>] :
        k \in {"timeout", "http_error", "no_json", "bad_json", "schema_mismatch"}}
    \cup {[kind |-> "plan", steps |-> j] : j \in JsonPlans}

DefaultStepId == <<"S_1", "S_2", "S_3", "S_4", "S_5", "S_6", "S_7">>

\* Step 4 of execute_plan: the JSON steps mapped to a PlannerDAG.
MapToProto(steps) ==
    [i \in DOMAIN steps |->
        Step(Get(steps[i], "step_id", DefaultStepId[i]),
             Get(steps[i], "action_id", "CONVERSE"),
             Get(steps[i], "depends_on", <<>>),
             NoCondition)]

\* _fallback_dag(intent, user_msg).
_fallback_dag(intent, user_msg) ==
    IF /\ intent = "TOOL_ACTION"
       /\ \/ Contains(Lower(Chars[user_msg]), Chars["list"])
          \/ Contains(Lower(Chars[user_msg]), Chars["files"])
    THEN <<Step("FALLBACK_LIST", "FS_LIST", <<>>, NoCondition)>>
    ELSE <<Step("FALLBACK_QUERY", "MEMORY_GET", <<>>, NoCondition)>>

\* execute_plan(intent, user_msg, feedback), given what the LLM does:
\* [state, dag], state "raised" when an exception leaves the method.  The
\* prompt is built before the try block is entered.
execute_plan(intent, user_msg, feedback, llm) ==
    IF intent = "CONVERSE"
    THEN [state |-> "returned", dag |-> <<>>]
    ELSE IF format(SYSTEM_PLANNER_PROMPT, {"user_text"}) # "ok"
    THEN [state |-> "raised", dag |-> <<>>]
    ELSE IF llm.kind \in {"timeout", "http_error"}
    THEN [state |-> "returned", dag |-> _fallback_dag(intent, user_msg)]
    ELSE IF llm.kind \in {"no_json", "bad_json"}
    THEN [state |-> "returned", dag |-> _fallback_dag(intent, user_msg)]
    ELSE IF llm.kind = "schema_mismatch"
    THEN [state |-> "returned", dag |-> _fallback_dag(intent, user_msg)]
    ELSE IF ~validate(MapToProto(llm.steps)).ok
    THEN [state |-> "returned", dag |-> _fallback_dag(intent, user_msg)]
    ELSE [state |-> "returned", dag |-> MapToProto(llm.steps)]

InitPlanner ==
    /\ planner \in {[state |-> "called", intent |-> i, user_msg |-> t,
                     feedback |-> f, llm |-> l] :
                        i \in Intents, t \in UserTexts, f \in Feedbacks,
                        l \in LlmBehaviours}
    /\ pc = "planner"
    /\ dag = <<>>
    /\ valid = [ok |-> FALSE, reason |-> "pending"]
    /\ decisions = <<>>
    /\ ExecIdle
    /\ OtherIdle

\* One call of TaskPlanner.execute_plan, from entry to return or raise.
ExecutePlan ==
    /\ pc = "planner"
    /\ planner.state = "called"
    /\ LET out == execute_plan(planner.intent, planner.user_msg,
                               planner.feedback, planner.llm)
       IN  /\ planner' = [planner EXCEPT !.state = out.state]
           /\ dag' = out.dag
    /\ UNCHANGED <<pc, valid, decisions, execVars, otherVars>>

NextPlanner == ExecutePlan

SpecPlanner == InitPlanner /\ [][NextPlanner]_vars

\* C10: execute_plan never lets an error reach its caller; it returns the
\* empty DAG exactly for CONVERSE, and otherwise a DAG the validator accepts
\* or the fallback DAG.
C10_PlannerNeverRaises ==
    /\ planner.state # "raised"
    /\ planner.state = "returned" =>
          /\ dag = <<>> <=> planner.intent = "CONVERSE"
          /\ \/ dag = <<>>
             \/ validate(dag).ok
             \/ dag = _fallback_dag(planner.intent, planner.user_msg)

-----------------------------------------------------------------------------
(* The result contract and the two-step cycle, on the executor and the     *)
(* validator of Spec.                                                      *)

\* The statuses of an ExecutionResult.
ExecutionStatuses ==
    {"EXECUTED", "FAILED", "DENIED", "AWAITING_CONFIRMATION", "SKIPPED"}

\* C18: every element of the list the executor returns is an ExecutionResult:
\* it carries step_id, tool_id and one status out of EXECUTED, FAILED,
\* DENIED, AWAITING_CONFIRMATION, SKIPPED, and it does not carry the raw
\* response object of a downstream service.
C18_ResultsAreExecutionResults ==
    \A n \in DOMAIN results :
        /\ {"step_id", "tool_id", "status"} \subseteq DOMAIN results[n]
        /\ results[n].status \in ExecutionStatuses
        /\ Get(results[n], "data", "none") # "res"

\* A DAG of two steps each of which depends on the other.
TwoCycle(d) ==
    /\ Len(d) = 2
    /\ d[1].step_id # d[2].step_id
    /\ d[1].depends_on = <<d[2].step_id>>
    /\ d[2].depends_on = <<d[1].step_id>>

\* C20: a DAG of two steps A and B, A depending on B and B on A, both with
\* registered actions, is rejected by validate and the reason reports a cycle.
C20_TwoCycleReportsCycle ==
    (/\ pc # "validate"
     /\ TwoCycle(dag)
     /\ \A i \in DOMAIN dag : dag[i].action_id \in TOOL_REGISTRY)
        => (~valid.ok /\ valid.reason = "Cycle detected")

-----------------------------------------------------------------------------
(* SemanticAnalyst.synthesize.                                             *)
(*                                                                         *)
(* A result is a dict with the key type and, when present, the keys        *)
(* success and data.  The Python values True, False and None of success    *)
(* are written "True", "False" and "None"; a data value is a record whose  *)
(* field kind tells what it is, kind "None" being Python's None.           *)

\* Longest result list handed to synthesize.
MaxResults == 3

PyNone == [kind |-> "None"]

RagResponse(chunks) == [kind |-> "RagResponse", chunks |-> chunks]
ContextResponse(summaries) ==
    [kind |-> "ContextResponse", memory_summaries |-> summaries]
ActionResponse(ok) ==
    [kind |-> "ActionResponse", success |-> ok, output |-> "out", error |-> "err"]
ErrorText(text) == [kind |-> "str", text |-> text]

\* The result dicts: what _dispatch_step and the repair entry look like, with
\* every value of success a dict can hold for a RAG result, key absent included.
AnalystResults ==
    {[type |-> "rag", success |-> ok, data |-> dt] :
        ok \in {"True", "False", "None"},
        dt \in {PyNone, RagResponse(<<>>), RagResponse(<<"chunk">>)}}
    \cup {[type |-> "rag", data |-> dt] :
        dt \in {PyNone, RagResponse(<<>>), RagResponse(<<"chunk">>)}}
    \cup {[type |-> "memory", success |-> "True", data |-> dt] :
        dt \in {PyNone, ContextResponse(<<>>), ContextResponse(<<"summary">>)}}
    \cup {[type |-> "tool", success |-> (IF ok THEN "True" ELSE "False"),
           data |-> ActionResponse(ok)] : ok \in BOOLEAN}
    \cup {[type |-> "error", success |-> "False", data |-> ErrorText("exception")],
          [type |-> "error", id |-> "A",
           data |-> ErrorText("Step failed after retries.")]}

\* result.get("data"), None when the key is absent.
GetData(r) == Get(r, "data", PyNone)

\* The lines one result adds to a list: `for result in plan_results`.
FactsOf(r, r_type) ==
    LET data == GetData(r)
    IN  IF data = PyNone \/ r.type # r_type THEN <<>>
        ELSE IF r_type = "rag"
        THEN [i \in DOMAIN data.chunks |-> <<"fact", data.chunks[i]>>]
        ELSE IF r_type = "memory"
        THEN [i \in DOMAIN data.memory_summaries |->
                 <<"identity", data.memory_summaries[i]>>]
        ELSE IF r_type = "tool"
        THEN IF data.success THEN << <<"Action", data.output>> >>
             ELSE << <<"Action FAILED", data.error>> >>
        ELSE << <<"System ERROR", data.text>> >>

RECURSIVE Collect(_, _)
Collect(plan_results, r_types) ==
    IF plan_results = <<>> THEN <<>>
    ELSE LET r == Head(plan_results)
         IN  (IF r.type \in r_types THEN FactsOf(r, r.type) ELSE <<>>)
                 \o Collect(Tail(plan_results), r_types)

identity_context(plan_results) == Collect(plan_results, {"memory"})
external_facts(plan_results) == Collect(plan_results, {"rag"})
system_status(plan_results) == Collect(plan_results, {"tool", "error"})

\* `any(r["type"] == "rag" for r in plan_results)`.
rag_attempted(plan_results) ==
    \E i \in DOMAIN plan_results : plan_results[i].type = "rag"

\* rag_succeeded taking anything but False for success.
rag_succeeded_lenient(plan_results) ==
    \E i \in DOMAIN plan_results :
        /\ plan_results[i].type = "rag"
        /\ Get(plan_results[i], "success", "None") # "False"

\* `any(r["type"] == "rag" and r.get("success") is True for r in plan_results)`.
rag_succeeded(plan_results) ==
    \E i \in DOMAIN plan_results :
        /\ plan_results[i].type = "rag"
        /\ Get(plan_results[i], "success", "None") = "True"

\* synthesize(plan_results): the analysis and needs_more_data.
synthesize(plan_results) ==
    LET ident == identity_context(plan_results)
        facts == external_facts(plan_results)
        status == system_status(plan_results)
        lines ==
            (IF ident # <<>> THEN << <<"header", "IDENTITY & PREFERENCES">> >> \o ident
             ELSE <<>>)
            \o (IF facts # <<>>
                THEN << <<"header", "EXTERNAL ENRICHMENT (RAG)">> >> \o facts
                ELSE <<>>)
            \o (IF status # <<>> THEN << <<"header", "SYSTEM EXECUTION">> >> \o status
                ELSE <<>>)
    IN  [analysis |-> IF lines # <<>> THEN lines
                      ELSE << <<"text", "No significant context found.">> >>,
         needs_more_data |->
             IF rag_attempted(plan_results) /\ facts = <<>>
             THEN rag_succeeded(plan_results)
             ELSE FALSE]

InitAnalyst ==
    /\ analyst \in {[state |-> "called", plan_results |-> rs] :
                       rs \in SeqsUpTo(AnalystResults, MaxResults)}
    /\ pc = "analyst"
    /\ dag = <<>>
    /\ valid = [ok |-> FALSE, reason |-> "pending"]
    /\ decisions = <<>>
    /\ ExecIdle
    /\ planner = IdlePlanner
    /\ chat = [state |-> "idle"]
    /\ workers = <<>>

\* One call of SemanticAnalyst.synthesize.
Synthesize ==
    /\ pc = "analyst"
    /\ analyst.state = "called"
    /\ LET out == synthesize(analyst.plan_results)
       IN  analyst' = [state |-> "returned",
                       plan_results |-> analyst.plan_results,
                       analysis |-> out.analysis,
                       needs_more_data |-> out.needs_more_data]
    /\ UNCHANGED <<dag, pc, valid, decisions, execVars, planner, chat, workers>>

NextAnalyst == Synthesize

SpecAnalyst == InitAnalyst /\ [][NextAnalyst]_vars

\* A RAG result with at least one chunk in its data.
HasChunks(r) ==
    /\ r.type = "rag"
    /\ "data" \in DOMAIN r
    /\ "chunks" \in DOMAIN r.data
    /\ Len(r.data.chunks) > 0

\* A RAG result whose success flag is present and is True.
SuccessIsTrue(r) ==
    /\ r.type = "rag"
    /\ "success" \in DOMAIN r
    /\ r.success = "True"

\* C16: synthesize returns needs_more_data = true if and only if the results
\* contain a RAG result, no RAG result holds a chunk, and some RAG result has
\* a success flag that is literally true (absent or None counts as false).
C16_NeedsMoreDataIff ==
    analyst.state = "returned" =>
        LET rs == analyst.plan_results
        IN  analyst.needs_more_data <=>
                /\ \E i \in DOMAIN rs : rs[i].type = "rag"
                /\ \A i \in DOMAIN rs : ~HasChunks(rs[i])
                /\ \E i \in DOMAIN rs : SuccessIsTrue(rs[i])

\* synthesize asked for more data on a list that holds, beside the RAG result
\* that succeeded, a RAG result without a success flag.
C16_Witness ==
    /\ analyst.state = "returned"
    /\ analyst.needs_more_data
    /\ \E i \in DOMAIN analyst.plan_results :
           /\ analyst.plan_results[i].type = "rag"
           /\ "success" \notin DOMAIN analyst.plan_results[i]

-----------------------------------------------------------------------------
(* Concurrent calls of DAGExecutor.execute on the one executor object the  *)
(* server shares among its worker threads.  Each call has a frame: its     *)
(* argument and its locals.  The stubs are the only thing the calls share; *)
(* what a stub does on the k-th _dispatch_step of a call is read off the   *)
(* call's script, so that the same call can be replayed alone.             *)

Workers == {"w1", "w2"}

ConcDags ==
    {Diamond, LateJoin,
     <<Step("A", "FS_LIST", <<>>, NoCondition),
       Step("B", "FS_DELETE", <<>>, NoCondition),
       Step("C", "FS_LIST", <<>>, NoCondition)>>,
     <<Step("A", "MEMORY_GET", <<>>, NoCondition),
       Step("B", "FS_LIST", <<"A">>, "A.success"),
       Step("C", "RAG_SEARCH", <<"A", "B">>, NoCondition)>>}

Scripts ==
    {<<"success">>, <<"failure", "success">>, <<"raise", "failure", "success">>,
     <<"success", "failure", "failure", "raise">>}

\* What the stub does on the k-th call of _dispatch_step.
Outcome(script, k) == script[((k - 1) % Len(script)) + 1]

\* The frame of a call of execute(dag) that has not yet run a statement.
Frame(d, script) ==
    [dag |-> d, script |-> script, pc |-> "execute",
     in_degree |-> <<>>, queue |-> <<>>, current_id |-> "none", attempts |-> 0,
     success |-> FALSE, result |-> NoResult, completed_steps |-> <<>>,
     results |-> <<>>, ncalls |-> 0]

\* execute, up to the loop, on a frame.
FrameExecuteStart(L) ==
    [L EXCEPT !.in_degree = InitialInDegree(L.dag),
              !.queue = SelectSeq(KeyOrder(L.dag, 1, {}),
                                  LAMBDA sid : InitialInDegree(L.dag)[sid] = 0),
              !.completed_steps = <<>>,
              !.results = <<>>,
              !.pc = "loop"]

\* One turn of `while queue` up to the retry loop, on a frame.
FramePopStep(L) ==
    LET cur  == Head(L.queue)
        step == steps_map(L.dag)[cur]
    IN  IF /\ step.condition # NoCondition
           /\ ~_evaluate_condition(step.condition, L.completed_steps)
        THEN LET r == Release(adj(L.dag)[cur], L.in_degree, Tail(L.queue))
             IN  [L EXCEPT !.current_id = cur,
                           !.completed_steps =
                               DictSet(L.completed_steps, cur,
                                       [success |-> TRUE, skipped |-> TRUE]),
                           !.in_degree = r.in_degree,
                           !.queue = r.queue]
        ELSE [L EXCEPT !.current_id = cur,
                       !.queue = Tail(L.queue),
                       !.attempts = 0,
                       !.success = FALSE,
                       !.pc = "dispatch"]

\* One turn of the retry loop, on a frame.
FrameDispatchAttempt(L) ==
    LET res == _dispatch_step(steps_map(L.dag)[L.current_id],
                              Outcome(L.script, L.ncalls + 1))
        ok  == Get(res, "success", FALSE)
    IN  [L EXCEPT !.result = res,
                  !.success = IF ok THEN TRUE ELSE @,
                  !.attempts = IF ok THEN @ ELSE @ + 1,
                  !.ncalls = @ + 1]

\* After the retry loop, on a frame.
FrameCompleteStep(L) ==
    LET done == DictSet(L.completed_steps, L.current_id, L.result)
    IN  IF L.success
        THEN LET r == Release(adj(L.dag)[L.current_id], L.in_degree, L.queue)
             IN  [L EXCEPT !.completed_steps = done,
                           !.results = Append(@, L.result),
                           !.in_degree = r.in_degree,
                           !.queue = r.queue,
                           !.pc = "loop"]
        ELSE [L EXCEPT !.completed_steps = done,
                       !.results = @ \o
                           <<L.result, [type |-> "error", id |-> L.current_id,
                                        data |-> "Step failed after retries."]>>,
                       !.pc = AfterFailure]

\* `while queue` ends on an empty queue: `return results`, on a frame.
FrameReturn(L) == [L EXCEPT !.pc = "done"]

\* The next statement of a call, by its position.
FrameStep(L) ==
    IF L.pc = "execute" THEN FrameExecuteStart(L)
    ELSE IF L.pc = "loop" /\ L.queue # <<>> THEN FramePopStep(L)
    ELSE IF L.pc = "loop" THEN FrameReturn(L)
    ELSE IF L.pc = "dispatch" /\ RetryLoop(L.attempts, L.success)
    THEN FrameDispatchAttempt(L)
    ELSE IF L.pc = "dispatch" THEN FrameCompleteStep(L)
    ELSE L

\* What execute(dag) returns when it runs alone and the stubs follow script:
\* its results list once the call is over.
RECURSIVE RunFrame(_)
RunFrame(L) ==
    IF L.pc = "done" THEN L.results ELSE RunFrame(FrameStep(L))

RunAlone(d, script) == RunFrame(Frame(d, script))

\* ResultsOwner for a results list kept on the executor object.
ResultsOwnerShared(w) == "w1"

\* The frame that holds the results list of call w: `results = []` binds a
\* local of the call.
ResultsOwner(w) == w

\* The frame of call w as the call sees it.
View(w) == [workers[w] EXCEPT !.results = workers[ResultsOwner(w)].results]

\* Call w has run a statement that took its view from L to L2.
Store(w, L, L2) ==
    LET own == ResultsOwner(w)
        busy == \E v \in Workers \ {w} : workers[v].pc \in {"loop", "dispatch"}
    IN  workers' =
            [v \in Workers |->
                IF v = w
                THEN [L2 EXCEPT !.results = IF own = w THEN @ ELSE workers[w].results,
                                !.overlapped = @ \/ busy]
                ELSE IF v = own
                THEN [workers[v] EXCEPT !.results = L2.results]
                ELSE workers[v]]

InitConcurrent ==
    /\ workers \in [Workers ->
                       {Frame(d, sc) @@ [overlapped |-> FALSE] :
                           d \in ConcDags, sc \in Scripts}]
    /\ pc = "concurrent"
    /\ dag = <<>>
    /\ valid = [ok |-> FALSE, reason |-> "pending"]
    /\ decisions = <<>>
    /\ ExecIdle
    /\ planner = IdlePlanner
    /\ chat = [state |-> "idle"]
    /\ analyst = [state |-> "idle"]

concFrame == <<dag, pc, valid, decisions, execVars, planner, chat, analyst>>

WorkerExecuteStart(w) ==
    /\ workers[w].pc = "execute"
    /\ Store(w, View(w), FrameExecuteStart(View(w)))
    /\ UNCHANGED concFrame

WorkerPopStep(w) ==
    /\ workers[w].pc = "loop"
    /\ workers[w].queue # <<>>
    /\ Store(w, View(w), FramePopStep(View(w)))
    /\ UNCHANGED concFrame

WorkerDispatchAttempt(w) ==
    /\ workers[w].pc = "dispatch"
    /\ RetryLoop(workers[w].attempts, workers[w].success)
    /\ Store(w, View(w), FrameDispatchAttempt(View(w)))
    /\ UNCHANGED concFrame

WorkerCompleteStep(w) ==
    /\ workers[w].pc = "dispatch"
    /\ ~RetryLoop(workers[w].attempts, workers[w].success)
    /\ Store(w, View(w), FrameCompleteStep(View(w)))
    /\ UNCHANGED concFrame

WorkerReturn(w) ==
    /\ workers[w].pc = "loop"
    /\ workers[w].queue = <<>>
    /\ Store(w, View(w), FrameReturn(View(w)))
    /\ UNCHANGED concFrame

NextConcurrent ==
    \E w \in Workers :
        \/ WorkerExecuteStart(w)
        \/ WorkerPopStep(w)
        \/ WorkerDispatchAttempt(w)
        \/ WorkerCompleteStep(w)
        \/ WorkerReturn(w)

SpecConcurrent == InitConcurrent /\ [][NextConcurrent]_vars

\* C19: concurrent executions share no per-request state: a statement of one
\* call leaves the in-degree map, completed map, queue and results of every
\* other call as they were, and the list a call returns is the list the same
\* DAG with the same dispatch outcomes yields when it runs alone.
C19_NoSharedExecutionState ==
    [][/\ \A v, w \in Workers :
            v # w => (workers'[v] = workers[v] \/ workers'[w] = workers[w])
       /\ \A w \in Workers :
            workers'[w].pc = "done" =>
                workers'[w].results = RunAlone(workers'[w].dag, workers'[w].script)
      ]_vars

\* Two calls on different DAGs ran while the other was in its loop, and both
\* returned a non-empty list.
C19_Witness ==
    /\ \A w \in Workers :
           /\ workers[w].pc = "done"
           /\ workers[w].overlapped
           /\ workers[w].results # <<>>
    /\ workers["w1"].dag # workers["w2"].dag
    /\ workers["w1"].results # workers["w2"].results

-----------------------------------------------------------------------------
(* IntentRouter.                                                           *)

Digits == {"0", "1", "2", "3", "4", "5", "6", "7", "8", "9"}

\* The characters \b tells apart from the others: [A-Za-z0-9_].
IsWordChar(c) ==
    \/ \E i \in DOMAIN LowerAlpha : LowerAlpha[i] = c
    \/ \E i \in DOMAIN UpperAlpha : UpperAlpha[i] = c
    \/ c \in Digits
    \/ c = "_"

\* re.search(r"\b(w1|w2|...)\b", text, re.IGNORECASE) for lower-case words.
Search(words, text) ==
    \E w \in words :
        \E i \in 1..(Len(text) - Len(Chars[w]) + 1) :
            LET j == i + Len(Chars[w]) - 1
            IN  /\ Lower(SubSeq(text, i, j)) = Chars[w]
                /\ i = 1 \/ ~IsWordChar(text[i - 1])
                /\ j = Len(text) \/ ~IsWordChar(text[j + 1])

\* self.triggers, in the insertion order `for ... in self.triggers.items()`
\* visits.
triggers ==
    <<[pattern |-> {"stock", "price", "market", "news", "weather"},
       intent  |-> "REALTIME_SEARCH"],
      [pattern |-> {"delete", "move", "open", "restart", "run"},
       intent  |-> "TOOL_ACTION"],
      [pattern |-> {"remember", "history", "like", "feel", "forgot"},
       intent  |-> "MEMORY_QUERY"]>>

\* str.strip() for blanks.
RECURSIVE LStrip(_)
LStrip(s) == IF s # <<>> /\ Head(s) = " " THEN LStrip(Tail(s)) ELSE s

RECURSIVE RStrip(_)
RStrip(s) ==
    IF s # <<>> /\ s[Len(s)] = " " THEN RStrip(SubSeq(s, 1, Len(s) - 1)) ELSE s

Strip(s) == RStrip(LStrip(s))

\* What the llama endpoint does with the classification prompt: the content
\* it answers with, or "timeout" for any failure of requests.post.
RouterLlm == {"CONVERSE", " tool_action ", "unsure", "timeout"}

\* semantic_fallback(text), given what the endpoint does.
semantic_fallback(text, llm) ==
    IF llm = "timeout" THEN "CONVERSE"
    ELSE LET answer == Upper(Strip(Chars[llm]))
         IN  IF \E k \in Intents : Chars[k] = answer
             THEN CHOOSE k \in Intents : Chars[k] = answer
             ELSE "CONVERSE"

\* route(text), given what the endpoint does: the intent, and whether the
\* endpoint was called.
route(text, llm) ==
    LET hits == SelectSeq(triggers, LAMBDA t : Search(t.pattern, Chars[text]))
    IN  IF hits # <<>>
        THEN [intent |-> hits[1].intent, llm_called |-> FALSE]
        ELSE [intent |-> semantic_fallback(text, llm), llm_called |-> TRUE]

-----------------------------------------------------------------------------
(* MemoryAdmissionController and PersonaGenerator.                         *)

\* MemoryAdmissionController.evaluate(user_msg, analysis_results): the
\* dimensions of the proposals, in order.
evaluate(text) ==
    LET t == Lower(Chars[text])
    IN  (IF Contains(t, Chars["i like"]) \/ Contains(t, Chars["i prefer"])
         THEN <<"preference_affinity">> ELSE <<>>)
        \o (IF Contains(t, Chars["stop"]) \/ Contains(t, Chars["too much"])
            THEN <<"stress_buffer">> ELSE <<>>)
        \o (IF Contains(t, Chars["at night"])
            THEN <<"night_mode_sensitivity">> ELSE <<>>)

\* What the persona LLM does with one request.
NarratorLlm == {"narration", "raise"}

\* _handle_simple_chat(user_query).
_handle_simple_chat(user_query, llm) ==
    IF llm = "raise" THEN [kind |-> "greeting", text |-> "Hello. How can I help you?"]
    ELSE [kind |-> "chat", text |-> user_query]

\* The execution log generate builds from the packet's results.
execution_log(packet_results) ==
    [i \in DOMAIN packet_results |->
        [tool_id |-> packet_results[i].tool_id,
         status |-> packet_results[i].status]]

\* generate(result_packet, memory_context), given what the LLM does.
generate(result_packet, llm) ==
    IF result_packet.results = <<>>
    THEN _handle_simple_chat(result_packet.user_query, llm)
    ELSE IF llm = "raise"
    THEN [kind |-> "LOG SUMMARY", text |-> execution_log(result_packet.results)]
    ELSE [kind |-> "narration", text |-> execution_log(result_packet.results)]

-----------------------------------------------------------------------------
(* BrainOrchestrator.ChatStream: one stream of requests, read by one call  *)
(* of the generator on an orchestrator whose layers are in place.  (The    *)
(* constructor as written builds DAGExecutor with four stubs, one more     *)
(* than DAGExecutor.__init__ takes.)                                       *)

\* Longest request stream.
MaxMessages == 2

ChatTexts ==
    {"hello", "delete foo", "What is the WEATHER", "i like the news",
     "stop, too much at night", "I dislike reruns", "remember to restart"}

\* What the services do while one message is processed: the router's and
\* the planner's LLM, the Memory service's GetContext, the stubs behind
\* _dispatch_step, the RAG service's chunks, the persona LLM.
Worlds ==
    [router_llm : RouterLlm,
     memory : {"context", "raise"},
     planner_llm : {[kind |-> "timeout", steps |-> <<>>],
                    [kind |-> "plan",
                     steps |-> <<[step_id |-> "A", action_id |-> "RAG_SEARCH",
                                  depends_on |-> <<>>]>>]},
     stubs : {<<"success">>, <<"failure">>},
     rag : {<<>>, <<"chunk">>},
     narrator_llm : NarratorLlm]

\* The parameters of DAGExecutor.execute after self, and the arguments
\* ChatStream passes.
execute_params == <<"dag">>
execute_args == <<"dag", "arbiter_decisions">>

\* A call with positional arguments: a count the signature does not take
\* raises TypeError.
Call(params, args) == IF Len(args) = Len(params) THEN "ok" ELSE "TypeError"

NoWorld == [memory |-> "none"]

InitChat ==
    /\ chat \in {[state |-> "open", stream |-> st, next |-> 0, text |-> "none",
                   world |-> NoWorld, intent |-> "none", log |-> <<>>,
                   feedbacks |-> <<>>, responses |-> <<>>, error |-> "none"] :
                     st \in SeqsUpTo(ChatTexts, MaxMessages)}
    /\ pc = "chat_recv"
    /\ dag = <<>>
    /\ valid = [ok |-> FALSE, reason |-> "pending"]
    /\ decisions = <<>>
    /\ ExecIdle
    /\ planner = IdlePlanner
    /\ analyst = [state |-> "idle"]
    /\ workers = <<>>

chatFrame == <<valid, execVars, planner, analyst, workers>>

\* `for request in request_iterator`: the next request is read.
ChatReceive ==
    /\ pc = "chat_recv"
    /\ chat.next < Len(chat.stream)
    /\ \E w \in Worlds :
          chat' = [chat EXCEPT !.next = @ + 1,
                               !.text = chat.stream[chat.next + 1],
                               !.world = w,
                               !.intent = "none",
                               !.log = <<>>,
                               !.feedbacks = <<>>]
    /\ pc' = "chat_route"
    /\ UNCHANGED <<dag, decisions, chatFrame>>

\* `for request in request_iterator`: the iterator is exhausted.
ChatStreamEnd ==
    /\ pc = "chat_recv"
    /\ chat.next = Len(chat.stream)
    /\ chat' = [chat EXCEPT !.state = "closed"]
    /\ pc' = "chat_closed"
    /\ UNCHANGED <<dag, decisions, chatFrame>>

\* 1. intent = self.router.route(request.text).
ChatRoute ==
    /\ pc = "chat_route"
    /\ LET r == route(chat.text, chat.world.router_llm)
       IN  chat' = [chat EXCEPT !.intent = r.intent,
                                !.log = @ \o (IF r.llm_called
                                              THEN <<"router", "router LLM">>
                                              ELSE <<"router">>)]
    /\ pc' = "chat_context"
    /\ UNCHANGED <<dag, decisions, chatFrame>>

\* 2. memory_context = self.memory_stub.GetContext(...), outside any try.
ChatGetContext ==
    /\ pc = "chat_context"
    /\ IF chat.world.memory = "raise"
       THEN /\ chat' = [chat EXCEPT !.state = "aborted", !.error = "RpcError",
                                    !.log = Append(@, "GetContext")]
            /\ pc' = "chat_aborted"
       ELSE /\ chat' = [chat EXCEPT !.log = Append(@, "GetContext")]
            /\ pc' = "chat_plan"
    /\ UNCHANGED <<dag, decisions, chatFrame>>

\* 3. dag = self.planner.execute_plan(intent, request.text): no feedback
\* argument, so feedback is None.
ChatPlan ==
    /\ pc = "chat_plan"
    /\ LET out == execute_plan(chat.intent, chat.text, "", chat.world.planner_llm)
       IN  IF out.state = "raised"
           THEN /\ chat' = [chat EXCEPT !.state = "aborted", !.error = "KeyError",
                                        !.log = Append(@, "planner"),
                                        !.feedbacks = Append(@, "")]
                /\ pc' = "chat_aborted"
                /\ UNCHANGED dag
           ELSE /\ chat' = [chat EXCEPT !.log = Append(@, "planner"),
                                        !.feedbacks = Append(@, "")]
                /\ dag' = out.dag
                /\ pc' = "chat_arbitrate"
    /\ UNCHANGED <<decisions, chatFrame>>

\* 4. arbiter_decisions = self.arbiter.evaluate_plan(dag).
ChatArbitrate ==
    /\ pc = "chat_arbitrate"
    /\ decisions' = evaluate_plan(dag)
    /\ chat' = [chat EXCEPT !.log = Append(@, "arbiter")]
    /\ pc' = "chat_execute"
    /\ UNCHANGED <<dag, chatFrame>>

\* 5. to 7. and the yield: self.executor.execute(dag, arbiter_decisions),
\* the ResultPacket, self.persona.generate(packet, memory_context), and the
\* BrainResponse.
ChatExecuteAndRespond ==
    /\ pc = "chat_execute"
    /\ IF Call(execute_params, execute_args) # "ok"
       THEN /\ chat' = [chat EXCEPT !.state = "aborted", !.error = "TypeError",
                                    !.log = Append(@, "executor")]
            /\ pc' = "chat_aborted"
       ELSE LET execution_results == RunAlone(dag, chat.world.stubs)
                packet == [user_query |-> chat.text,
                           results |-> execution_results]
                narration == generate(packet, chat.world.narrator_llm)
            IN  /\ chat' = [chat EXCEPT
                               !.log = @ \o <<"executor", "narrator">>,
                               !.responses =
                                   Append(@, [of |-> chat.next,
                                              text |-> narration,
                                              is_partial |-> FALSE])]
                /\ pc' = "chat_recv"
    /\ UNCHANGED <<dag, decisions, chatFrame>>

NextChat ==
    \/ ChatReceive
    \/ ChatStreamEnd
    \/ ChatRoute
    \/ ChatGetContext
    \/ ChatPlan
    \/ ChatArbitrate
    \/ ChatExecuteAndRespond

SpecChat == InitChat /\ [][NextChat]_vars

-----------------------------------------------------------------------------
(* Properties of ChatStream.                                               *)

\* The message read last is done with: the generator is back at the head of
\* its loop, has returned, or was left by an exception.
Handled ==
    /\ chat.next >= 1
    /\ pc \in {"chat_recv", "chat_closed", "chat_aborted"}

\* How often a layer was called for the message read last.
Count(log, layer) == Cardinality({i \in DOMAIN log : log[i] = layer})

\* A response to the message read last was yielded.
Answered == \E i \in DOMAIN chat.responses : chat.responses[i].of = chat.next

\* C11: for every message the planner is invoked at most 3 times, and the
\* pipeline then proceeds to narration and emits a response (stated for the
\* messages during which the Memory service answers).
C11_LoopTerminatesAndNarrates ==
    /\ Count(chat.log, "planner") <= 3
    /\ (Handled /\ chat.world.memory = "context")
          => (Count(chat.log, "narrator") >= 1 /\ Answered)

\* What the first iteration's execution yields for a plan of one RAG_SEARCH
\* step when the RAG service answers with the world's chunks.
FirstResults(w) ==
    <<[type |-> "rag", success |-> "True", data |-> RagResponse(w.rag)]>>

\* C12: when the first iteration's results make the analyst return
\* needs_more_data = true, the planner is invoked a second time for the same
\* message, with a non-empty feedback, before the message is done with; for
\* an empty DAG (CONVERSE) the planner is invoked once.
C12_ReplanOnInsufficiency ==
    Handled =>
        /\ (/\ chat.intent # "CONVERSE"
            /\ chat.world.memory = "context"
            /\ chat.world.planner_llm.kind = "plan"
            /\ synthesize(FirstResults(chat.world)).needs_more_data)
              => (/\ Count(chat.log, "planner") >= 2
                  /\ chat.feedbacks[2] # "")
        /\ (chat.intent = "CONVERSE" /\ chat.world.memory = "context")
              => Count(chat.log, "planner") = 1

\* C13: one BrainResponse with is_partial = false per input message, in the
\* order of the messages: once a message is done with there are as many
\* responses as messages read, before that one fewer, and the i-th response
\* answers the i-th message.
C13_OneResponsePerMessageInOrder ==
    /\ Len(chat.responses) =
           IF Handled \/ chat.next = 0 THEN chat.next ELSE chat.next - 1
    /\ \A i \in DOMAIN chat.responses :
           /\ chat.responses[i].of = i
           /\ ~chat.responses[i].is_partial

\* C14: no internal failure ends the stream: no exception leaves ChatStream,
\* and every response carries a narration or the raw execution log.
C14_NoFailureEndsStream ==
    /\ chat.state # "aborted"
    /\ \A i \in DOMAIN chat.responses :
           chat.responses[i].text.kind \in
               {"narration", "chat", "greeting", "LOG SUMMARY"}

\* The words of a text: its maximal runs of word characters, in lower case.
Tokens(text) ==
    {Lower(SubSeq(text, i, j)) :
        <<i, j>> \in {ij \in (1..Len(text)) \X (1..Len(text)) :
                        /\ ij[1] <= ij[2]
                        /\ \A k \in ij[1]..ij[2] : IsWordChar(text[k])
                        /\ ij[1] = 1 \/ ~IsWordChar(text[ij[1] - 1])
                        /\ ij[2] = Len(text) \/ ~IsWordChar(text[ij[2] + 1])}}

\* The intent of the first pattern, realtime, tool, memory, one of whose
\* words is a word of the text; CONVERSE when there is none.
KeywordIntent(text) ==
    LET has(n) == \E w \in triggers[n].pattern : Chars[w] \in Tokens(Chars[text])
    IN  IF has(1) THEN "REALTIME_SEARCH"
        ELSE IF has(2) THEN "TOOL_ACTION"
        ELSE IF has(3) THEN "MEMORY_QUERY"
        ELSE "CONVERSE"

\* C15: route returns the intent of the first matching pattern in the order
\* realtime, tool, memory, CONVERSE when none matches, and makes no external
\* call: the intent is a function of the text alone.
C15_RouterLocalFirstMatch ==
    chat.intent # "none" =>
        /\ chat.intent = KeywordIntent(chat.text)
        /\ Count(chat.log, "router LLM") = 0

\* C17: for a message whose text triggers a memory-admission rule, one
\* ProposeMemory call is made per proposal of evaluate, each after the
\* analyst and before the narrator (stated for the messages during which the
\* Memory service answers).
C17_OneProposeMemoryPerProposal ==
    (Handled /\ chat.world.memory = "context" /\ evaluate(chat.text) # <<>>) =>
        /\ Count(chat.log, "ProposeMemory") = Len(evaluate(chat.text))
        /\ \A i \in DOMAIN chat.log :
               chat.log[i] = "ProposeMemory" =>
                   /\ \E j \in 1..(i - 1) : chat.log[j] = "analyst"
                   /\ \A j \in 1..(i - 1) : chat.log[j] # "narrator"

-----------------------------------------------------------------------------
(* Step ids, skipping, termination and completeness of DAGExecutor.execute *)
(* on the DAGs of Spec.                                                    *)

\* No two steps of the DAG have the same step_id.
UniqueStepIds(d) ==
    \A i, j \in DOMAIN d : d[i].step_id = d[j].step_id => i = j

\* C21: a DAG the validator accepts, and so hands on to the arbiter and the
\* executor, never contains two steps with the same step_id.
C21_AcceptedDagHasUniqueStepIds ==
    (pc # "validate" /\ valid.ok) => UniqueStepIds(dag)

\* How often step n occurs among the successors of step k.
Successions(d, k, n) ==
    Cardinality({i \in DOMAIN adj(d)[k] : adj(d)[k][i] = n})

\* C22: when the condition of the step taken from the queue is false (no step
\* it names has completed, or one that has completed did not succeed), the
\* step is not dispatched, exactly one result with status SKIPPED is emitted
\* for it, it is recorded with success = true in the completed map, and the
\* in-degree of each of its successors is decremented.
C22_SkipOnFalseCondition ==
    [][(/\ pc = "loop"
        /\ queue # <<>>
        /\ steps_map(dag)[Head(queue)].condition # NoCondition
        /\ ~FailClosed(steps_map(dag)[Head(queue)].condition, completed_steps))
       => LET cur == Head(queue)
          IN  /\ pc' = "loop"
              /\ dispatched' = dispatched
              /\ Len(results') = Len(results) + 1
              /\ Get(results'[Len(results')], "status", "none") = "SKIPPED"
              /\ cur \in DictKeys(completed_steps')
              /\ Get(DictGet(completed_steps', cur), "success", FALSE)
              /\ \A n \in StepIds(dag) :
                     in_degree'[n] = in_degree[n] - Successions(dag, cur, n)]_vars

\* C23: execute terminates on every DAG, cyclic ones and ones with absent
\* dependencies, repeated depends_on entries or repeated step ids included:
\* no step id is taken from the queue twice and the number of dispatch
\* attempts never exceeds 3 times the number of distinct step ids, which
\* bounds the number of statements a call executes, and until the call has
\* returned there is a next statement to execute.
C23_ExecuteTerminates ==
    pc \in ExecPcs =>
        /\ \A m, n \in DOMAIN popped : popped[m] = popped[n] => m = n
        /\ total_calls <= 3 * Cardinality(StepIds(dag))
        /\ pc # "done" => ENABLED Next

\* execute has returned on a DAG with a dependency cycle, after taking two
\* steps from the queue, one of which used up its three attempts.
C23_Witness ==
    /\ pc = "done"
    /\ ~Acyclic(dag)
    /\ Len(popped) >= 2
    /\ total_calls >= 4

\* No call of _dispatch_step has failed: the calls made are one for each step
\* that completed by running.
EveryDispatchSucceeded ==
    total_calls = Cardinality({k \in DictKeys(completed_steps) :
                                  /\ Succeeded(k)
                                  /\ "skipped" \notin DOMAIN DictGet(completed_steps, k)})

\* C24: on a DAG the validator accepts and the arbiter allows in every step,
\* when every dispatch succeeds, execute has processed every step (run it or
\* skipped it) by the time it returns, and none is left waiting with a
\* positive in-degree.
C24_AcceptedDagRunsToCompletion ==
    (/\ pc = "done"
     /\ valid.ok
     /\ \A i \in DOMAIN decisions : decisions[i].verdict = "ALLOW"
     /\ EveryDispatchSucceeded)
    => \A k \in StepIds(dag) :
           /\ k \in DictKeys(completed_steps)
           /\ in_degree[k] <= 0

UnknownAction(action_id) ==
    /\ action_id \notin {"RAG_SEARCH", "MEMORY_GET"}
    /\ ~StartsWith(Chars[action_id], Chars["FS_"])

\* C26: a step whose action id is not RAG_SEARCH, MEMORY_GET or FS_-prefixed
\* never reaches a stub, whether the registry lists the action id or not:
\* every attempt on it returns the 'Unknown action' failure, it is attempted
\* 3 times, and then execute appends its failed result and the repair entry
\* and returns without going back to the loop.
C26_UnknownActionNeverDispatched ==
    /\ \A k \in stubbed : ~UnknownAction(steps_map(dag)[k].action_id)
    /\ (pc \in ExecPcs /\ current_id # "none"
            /\ UnknownAction(steps_map(dag)[current_id].action_id))
       => /\ pc # "loop"
          /\ ~success
          /\ attempts = calls
          /\ calls <= retry_budget + 1
          /\ calls > 0 =>
                result = [type |-> "error", success |-> FALSE,
                          data |-> "Unknown action"]
          /\ pc = "done" =>
                /\ calls = retry_budget + 1
                /\ Len(results) >= 2
                /\ results[Len(results) - 1] = result
                /\ Get(results[Len(results)], "id", "none") = current_id
                /\ DictGet(completed_steps, current_id) = result

\* execute has returned after three attempts on a step whose action id the
\* registry lists for another destination than memory, rag or client, while
\* another step was ready.
C26_Witness ==
    /\ pc = "done"
    /\ current_id # "none"
    /\ steps_map(dag)[current_id].action_id = "OPS_RESTART"
    /\ steps_map(dag)[current_id].action_id \in TOOL_REGISTRY
    /\ calls = retry_budget + 1
    /\ queue # <<>>

====
